---- MODULE Spec2Model ----
(***************************************************************************)
(* Model of the planet-nft program (programs/planet-nft/src/lib.rs): the   *)
(* single instruction mint_planet_nft, the account validation declared by  *)
(* the MintPlanetNft accounts struct, and the two cross-program calls      *)
(* (mint_to, create_metadata_accounts_v3) it makes.                        *)
(*                                                                         *)
(* Byte strings are sequences of integers.  An address is the byte string  *)
(* that is hashed to obtain it (the hash is taken to be injective), so two *)
(* seed lists whose concatenations agree give the same address, exactly as *)
(* on the ledger.  The host runs one instruction at a time and discards    *)
(* every account change of an instruction that returns an error.           *)
(***************************************************************************)
EXTENDS Integers, Sequences, FiniteSets, TLC

\* ledger     the committed accounts (mints, holding accounts, metadata)
\* work       the accounts as the running instruction sees and changes them
\* pre        the ledger as it was when the running instruction started
\* pc         where the running instruction is
\* inv        the arguments and accounts of the running instruction
\* result     what the instruction returned
\* cpiLog     the cross-program calls the running instruction has made
\* attempted  the identifiers on which a well-formed mint has run to its end
\* derived    the derivations made when the Address Deriver is run by itself
VARIABLES ledger, work, pre, pc, inv, result, cpiLog, attempted, derived

vars == <<ledger, work, pre, pc, inv, result, cpiLog, attempted, derived>>

(***************************************************************************)
(* Bounds of the model                                                     *)
(***************************************************************************)
MaxIdLen == 2

IdBytes == {97}

RECURSIVE SeqsUpTo(_, _)
SeqsUpTo(S, n) ==
    IF n = 0 THEN {<<>>}
    ELSE LET shorter == SeqsUpTo(S, n - 1)
         IN  shorter \cup {Append(s, b) : s \in shorter, b \in S}

Ids == SeqsUpTo(IdBytes, MaxIdLen)

Names == {"Kepler-42b", "Vulcan"}

Uris == {"https://example.com/meta/42.json", "https://example.com/meta/7.json"}

Payers == {<<11>>, <<12>>}

TokenKeys == {<<21>>, <<22>>}

Faults == {"none", "create", "mint_to", "create_metadata"}

(***************************************************************************)
(* Program constants                                                       *)
(***************************************************************************)
PROGRAM_ID == <<1>>

METADATA_PROGRAM_ID == <<2>>

OtherProgram == <<3>>

TagPlanetNft == <<112, 108, 97, 110, 101, 116, 95, 110, 102, 116>>

TagMintAuthority ==
    <<109, 105, 110, 116, 95, 97, 117, 116, 104, 111, 114, 105, 116, 121>>

TagMetadata == <<109, 101, 116, 97, 100, 97, 116, 97>>

Symbol == "PLANET"

MintAmount == 1

MaxBump == 255

MinBump == 1

MaxSeedLen == 32

(***************************************************************************)
(* Address derivation                                                      *)
(***************************************************************************)
RECURSIVE Concat(_)
Concat(seeds) ==
    IF seeds = <<>> THEN <<>> ELSE Head(seeds) \o Concat(Tail(seeds))

\* The hash of seeds and program id, kept as its preimage.
CreateProgramAddress(seeds, program) == Concat(seeds) \o program

(***************************************************************************)
(* The curve test of create_program_address: sha256 of the seeds, the bump *)
(* seed, the program id and "ProgramDerivedAddress", read as a compressed  *)
(* ed25519 point; a candidate that decompresses is on the curve and is     *)
(* rejected.  The test is tabulated for the id of declare_id!, the id of   *)
(* the token metadata program and identifiers of up to three bytes 97:     *)
(* for each seed list, the bump seeds in 0..255 whose candidate is on the  *)
(* curve.                                                                  *)
(***************************************************************************)
\* seeds [b"planet_nft", planet_id] under the program id
ResourceCurveTable == {
    [seeds |-> <<TagPlanetNft, <<>>>>,
     program |-> PROGRAM_ID,
     onCurve |-> {
            255, 253, 249, 243, 242, 240, 239, 237, 236, 233, 231,
            229, 228, 227, 226, 225, 224, 223, 222, 221, 219, 218,
            216, 215, 201, 200, 195, 189, 188, 187, 185, 184, 183,
            179, 176, 174, 172, 171, 170, 169, 168, 167, 165, 163,
            162, 161, 157, 155, 152, 151, 150, 148, 146, 145, 143,
            141, 140, 138, 137, 136, 135, 134, 132, 131, 130, 129,
            127, 126, 121, 119, 117, 115, 110, 108, 102, 100, 97,
            96, 95, 94, 92, 91, 88, 83, 81, 80, 77, 75, 74, 72,
            70, 69, 68, 67, 65, 63, 62, 60, 57, 56, 55, 53, 51,
            50, 47, 46, 44, 43, 41, 39, 36, 35, 32, 31, 28, 24,
            22, 21, 20, 19, 16, 12, 11, 6}],
    [seeds |-> <<TagPlanetNft, <<97>>>>,
     program |-> PROGRAM_ID,
     onCurve |-> {
            255, 253, 252, 250, 246, 237, 234, 232, 231, 229, 227,
            225, 224, 219, 215, 214, 207, 205, 202, 201, 200, 197,
            196, 193, 188, 187, 182, 181, 180, 177, 175, 173, 172,
            169, 168, 167, 165, 164, 162, 161, 160, 159, 157, 156,
            155, 152, 151, 147, 143, 142, 140, 137, 134, 133, 132,
            131, 130, 129, 128, 126, 123, 120, 119, 118, 117, 115,
            112, 110, 109, 107, 106, 103, 102, 100, 96, 93, 91,
            89, 88, 87, 83, 80, 79, 78, 77, 76, 74, 73, 72, 71,
            69, 68, 66, 65, 61, 58, 56, 53, 52, 48, 46, 44, 43,
            42, 41, 40, 38, 36, 35, 33, 31, 30, 26, 25, 24, 21,
            20, 11, 8, 5, 4, 3}],
    [seeds |-> <<TagPlanetNft, <<97, 97>>>>,
     program |-> PROGRAM_ID,
     onCurve |-> {
            255, 250, 249, 240, 237, 236, 233, 232, 231, 230, 229,
            228, 227, 224, 221, 218, 215, 214, 213, 210, 209, 207,
            205, 203, 201, 200, 198, 197, 196, 195, 194, 193, 192,
            188, 186, 181, 180, 177, 174, 172, 171, 170, 169, 167,
            163, 161, 160, 158, 156, 155, 152, 151, 148, 146, 145,
            144, 142, 141, 139, 138, 135, 134, 133, 130, 129, 127,
            124, 123, 121, 118, 117, 116, 115, 109, 108, 106, 102,
            100, 98, 97, 94, 92, 91, 89, 88, 87, 85, 84, 81, 80,
            78, 77, 75, 73, 69, 68, 66, 65, 63, 60, 59, 54, 53,
            52, 51, 50, 46, 43, 41, 40, 39, 38, 33, 29, 28, 23,
            22, 21, 20, 18, 17, 13, 12, 10, 9, 4, 3, 2, 1}],
    [seeds |-> <<TagPlanetNft, <<97, 97, 97>>>>,
     program |-> PROGRAM_ID,
     onCurve |-> {
            252, 250, 248, 246, 243, 238, 237, 233, 227, 226, 222,
            221, 219, 214, 213, 210, 207, 201, 199, 197, 195, 192,
            191, 189, 188, 187, 184, 183, 182, 181, 176, 174, 173,
            170, 168, 167, 165, 159, 153, 151, 150, 149, 146, 145,
            144, 143, 142, 141, 140, 135, 131, 128, 127, 126, 125,
            124, 123, 120, 119, 118, 117, 116, 115, 111, 110, 106,
            102, 99, 98, 96, 95, 90, 87, 86, 85, 84, 82, 78, 77,
            76, 75, 74, 72, 69, 68, 67, 62, 60, 57, 55, 51, 49,
            48, 47, 46, 41, 40, 39, 38, 36, 35, 34, 29, 28, 26,
            25, 24, 22, 21, 17, 13, 12, 10, 8, 6, 5, 3, 1, 0}]}

\* seeds [b"mint_authority", planet_id] under the program id
AuthorityCurveTable == {
    [seeds |-> <<TagMintAuthority, <<>>>>,
     program |-> PROGRAM_ID,
     onCurve |-> {
            255, 254, 253, 252, 249, 246, 245, 243, 242, 238, 235,
            232, 231, 230, 228, 226, 225, 222, 221, 215, 213, 212,
            211, 210, 208, 205, 202, 201, 200, 198, 196, 195, 194,
            192, 191, 190, 186, 180, 179, 175, 171, 170, 168, 165,
            163, 162, 158, 156, 155, 152, 151, 150, 147, 145, 144,
            143, 141, 139, 138, 137, 136, 135, 131, 130, 129, 127,
            126, 123, 120, 119, 118, 117, 113, 111, 110, 106, 105,
            104, 103, 102, 101, 99, 96, 93, 85, 83, 82, 81, 79,
            76, 75, 73, 71, 69, 68, 66, 64, 62, 59, 58, 57, 55,
            54, 53, 52, 49, 47, 46, 44, 41, 38, 37, 34, 31, 30,
            27, 26, 25, 23, 22, 19, 14, 13, 11, 8, 5, 4, 0}],
    [seeds |-> <<TagMintAuthority, <<97>>>>,
     program |-> PROGRAM_ID,
     onCurve |-> {
            255, 254, 253, 252, 248, 247, 244, 243, 241, 240, 239,
            232, 230, 228, 223, 222, 221, 218, 212, 207, 205, 204,
            202, 201, 198, 197, 196, 195, 193, 191, 189, 186, 185,
            184, 183, 182, 175, 168, 162, 161, 160, 158, 157, 156,
            155, 152, 151, 150, 146, 144, 143, 141, 140, 138, 137,
            134, 133, 132, 131, 130, 129, 125, 124, 122, 121, 120,
            118, 113, 112, 111, 110, 109, 106, 105, 102, 99, 97,
            94, 92, 90, 86, 85, 83, 79, 77, 73, 70, 68, 67, 66,
            61, 60, 58, 54, 52, 50, 49, 48, 46, 44, 43, 40, 36,
            35, 34, 32, 29, 28, 26, 25, 23, 22, 21, 20, 17, 12, 9,
            8, 7, 5, 4, 0}],
    [seeds |-> <<TagMintAuthority, <<97, 97>>>>,
     program |-> PROGRAM_ID,
     onCurve |-> {
            255, 254, 253, 251, 250, 248, 246, 245, 244, 241, 239,
            235, 231, 229, 227, 226, 222, 221, 219, 217, 215, 214,
            212, 211, 210, 208, 207, 204, 202, 199, 198, 196, 193,
            192, 191, 190, 185, 182, 181, 180, 176, 173, 172, 171,
            169, 168, 164, 162, 161, 160, 157, 154, 153, 152, 148,
            146, 145, 144, 142, 139, 138, 137, 136, 135, 134, 133,
            132, 131, 130, 127, 126, 125, 124, 118, 106, 105, 101,
            99, 98, 93, 91, 90, 87, 85, 84, 83, 78, 77, 75, 73,
            72, 70, 68, 67, 64, 63, 62, 60, 59, 57, 56, 52, 49,
            48, 47, 44, 43, 42, 41, 39, 33, 28, 27, 19, 17, 16,
            15, 14, 10, 7, 6, 3, 2}],
    [seeds |-> <<TagMintAuthority, <<97, 97, 97>>>>,
     program |-> PROGRAM_ID,
     onCurve |-> {
            255, 254, 253, 250, 248, 246, 245, 242, 241, 239, 232,
            228, 226, 223, 222, 221, 220, 218, 217, 216, 215, 214,
            213, 212, 210, 209, 208, 206, 205, 203, 201, 199, 194,
            193, 192, 190, 187, 185, 184, 183, 179, 178, 177, 175,
            174, 172, 170, 167, 166, 165, 164, 163, 162, 161, 160,
            158, 154, 153, 152, 149, 148, 147, 143, 130, 128, 124,
            123, 121, 120, 111, 110, 108, 107, 106, 103, 99, 98,
            96, 94, 93, 92, 91, 89, 88, 83, 82, 79, 77, 76, 74,
            73, 71, 69, 68, 67, 64, 63, 62, 59, 58, 55, 54, 52,
            51, 49, 44, 42, 41, 40, 39, 34, 32, 29, 28, 27, 25,
            24, 23, 18, 17, 15, 14, 13, 12, 7, 4, 2}]}

\* seeds [b"metadata", METADATA_PROGRAM_ID, mint] under METADATA_PROGRAM_ID
MetadataCurveTable == {
    [seeds |-> <<TagMetadata, METADATA_PROGRAM_ID,
                 CreateProgramAddress(<<TagPlanetNft, <<>>, <<254>>>>, PROGRAM_ID)>>,
     program |-> METADATA_PROGRAM_ID,
     onCurve |-> {
            255, 254, 252, 249, 248, 247, 245, 244, 243, 242, 236,
            234, 233, 232, 230, 224, 223, 220, 219, 216, 214, 213,
            212, 208, 206, 205, 204, 199, 193, 188, 187, 185, 183,
            179, 177, 173, 172, 171, 169, 168, 167, 165, 164, 162,
            161, 160, 158, 156, 152, 151, 148, 147, 146, 145, 142,
            138, 136, 134, 131, 130, 129, 128, 127, 124, 123, 122,
            120, 118, 114, 112, 110, 101, 100, 99, 97, 96, 93, 92,
            90, 89, 88, 86, 84, 80, 79, 77, 76, 75, 72, 71, 69,
            65, 63, 61, 60, 57, 55, 53, 50, 49, 48, 44, 43, 41,
            38, 37, 36, 35, 34, 33, 32, 30, 29, 27, 25, 23, 22,
            19, 17, 16, 15, 14, 12, 9, 8, 6, 4, 3, 2, 0}],
    [seeds |-> <<TagMetadata, METADATA_PROGRAM_ID,
                 CreateProgramAddress(<<TagPlanetNft, <<97>>, <<254>>>>, PROGRAM_ID)>>,
     program |-> METADATA_PROGRAM_ID,
     onCurve |-> {
            255, 254, 253, 251, 247, 246, 242, 240, 239, 236, 235,
            232, 230, 227, 223, 221, 219, 216, 214, 212, 210, 209,
            207, 205, 199, 195, 194, 192, 190, 183, 182, 181, 180,
            179, 177, 171, 169, 165, 164, 162, 158, 154, 150, 149,
            148, 147, 145, 144, 143, 141, 140, 139, 138, 134, 131,
            128, 123, 122, 121, 120, 118, 117, 115, 113, 109, 108,
            106, 98, 97, 95, 91, 90, 88, 87, 81, 79, 78, 77, 76,
            75, 73, 70, 69, 61, 57, 56, 55, 51, 50, 49, 47, 46,
            43, 42, 40, 39, 38, 36, 35, 34, 32, 31, 28, 26, 25,
            22, 16, 15, 12, 11, 10, 8, 6, 4, 3, 2, 1, 0}],
    [seeds |-> <<TagMetadata, METADATA_PROGRAM_ID,
                 CreateProgramAddress(<<TagPlanetNft, <<97, 97>>, <<254>>>>, PROGRAM_ID)>>,
     program |-> METADATA_PROGRAM_ID,
     onCurve |-> {
            254, 248, 247, 246, 245, 244, 238, 233, 230, 228, 227,
            226, 225, 224, 223, 221, 218, 216, 215, 211, 210, 207,
            205, 204, 203, 201, 196, 193, 188, 186, 185, 179, 178,
            176, 175, 174, 172, 171, 168, 166, 165, 163, 161, 159,
            156, 154, 153, 150, 149, 148, 146, 144, 141, 140, 139,
            133, 129, 128, 127, 125, 124, 120, 117, 116, 114, 113,
            107, 106, 102, 101, 100, 98, 96, 91, 89, 88, 86, 85,
            82, 81, 79, 78, 76, 71, 69, 66, 65, 63, 61, 60, 56,
            54, 49, 46, 45, 44, 39, 37, 36, 35, 34, 32, 31, 30,
            29, 26, 25, 23, 22, 21, 20, 18, 17, 16, 13, 12, 7, 6,
            5, 4, 1}],
    [seeds |-> <<TagMetadata, METADATA_PROGRAM_ID,
                 CreateProgramAddress(<<TagPlanetNft, <<97, 97, 97>>, <<255>>>>, PROGRAM_ID)>>,
     program |-> METADATA_PROGRAM_ID,
     onCurve |-> {
            253, 250, 249, 242, 241, 240, 239, 236, 235, 232, 230,
            229, 224, 221, 219, 218, 217, 214, 210, 209, 208, 207,
            203, 202, 200, 198, 196, 195, 194, 193, 184, 183, 182,
            180, 179, 176, 174, 171, 166, 164, 162, 161, 158, 156,
            153, 152, 151, 147, 146, 145, 143, 142, 135, 134, 133,
            132, 130, 128, 125, 124, 119, 117, 114, 112, 110, 108,
            106, 102, 99, 96, 94, 93, 91, 88, 83, 81, 79, 78, 72,
            69, 68, 67, 64, 63, 59, 53, 49, 46, 44, 43, 42, 40,
            39, 35, 33, 29, 26, 25, 24, 22, 20, 19, 18, 17, 16,
            14, 13, 12, 8, 6, 4, 1, 0}]}

CurveTable == ResourceCurveTable \cup AuthorityCurveTable \cup MetadataCurveTable

CandidatesOf(e, bumps) ==
    {CreateProgramAddress(Append(e.seeds, <<b>>), e.program) : b \in bumps}

OnCurvePoints == UNION {CandidatesOf(e, e.onCurve) : e \in CurveTable}

OffCurvePoints ==
    UNION {CandidatesOf(e, (0..MaxBump) \ e.onCurve) : e \in CurveTable}

\* Defined on the tabulated candidates only.
OnCurve(addr) ==
    CASE addr \in OnCurvePoints -> TRUE
      [] addr \in OffCurvePoints -> FALSE

\* find_program_address found no bump seed, or a seed is too long: it panics.
NoAddress == <<>>

NotFound == <<NoAddress, 0>>

RECURSIVE FindFrom(_, _, _)
FindFrom(seeds, program, bump) ==
    IF bump < MinBump THEN NotFound
    ELSE LET cand == CreateProgramAddress(Append(seeds, <<bump>>), program)
         IN  IF ~OnCurve(cand) THEN <<cand, bump>>
             ELSE FindFrom(seeds, program, bump - 1)

RECURSIVE FindUpFrom(_, _, _)
FindUpFrom(seeds, program, bump) ==
    IF bump > MaxBump THEN NotFound
    ELSE LET cand == CreateProgramAddress(Append(seeds, <<bump>>), program)
         IN  IF ~OnCurve(cand) THEN <<cand, bump>>
             ELSE FindUpFrom(seeds, program, bump + 1)

\* the bump search run upwards from the smallest bump seed
FindProgramAddressAscending(seeds, program) ==
    FindUpFrom(seeds, program, MinBump)

\* Pubkey::find_program_address: the first off-curve candidate, trying the
\* bump seeds from MaxBump down to MinBump.
FindProgramAddress(seeds, program) == FindFrom(seeds, program, MaxBump)

ResourceSeeds(id) == <<TagPlanetNft, id>>

AuthoritySeedsSameTag(id) == <<TagPlanetNft, id>>

AuthoritySeeds(id) == <<TagMintAuthority, id>>

MetadataSeeds(mintKey) == <<TagMetadata, METADATA_PROGRAM_ID, mintKey>>

ResourceAddress(id) == FindProgramAddress(ResourceSeeds(id), PROGRAM_ID)[1]

AuthorityAddress(id) == FindProgramAddress(AuthoritySeeds(id), PROGRAM_ID)[1]

AuthorityBump(id) == FindProgramAddress(AuthoritySeeds(id), PROGRAM_ID)[2]

ExpectedMetadata(mintKey) ==
    FindProgramAddress(MetadataSeeds(mintKey), METADATA_PROGRAM_ID)[1]

(***************************************************************************)
(* Ledger: the accounts of the token program and of the metadata registry  *)
(***************************************************************************)
NoAccounts == [a \in {} |-> 0]

EmptyLedger == [mints |-> NoAccounts, tokens |-> NoAccounts, metas |-> NoAccounts]

Exists(l, addr) ==
    \/ addr \in DOMAIN l.mints
    \/ addr \in DOMAIN l.tokens
    \/ addr \in DOMAIN l.metas

\* The signer check the host applies to a cross-program call: every account
\* the callee's instruction marks as signer must have signed the transaction
\* or be the address the caller's signer seeds derive under its program id.
CpiAuthorized(required, txSigners, signerSeeds) ==
    \A a \in required :
        \/ a \in txSigners
        \/ \E k \in 1..Len(signerSeeds) :
              CreateProgramAddress(signerSeeds[k], PROGRAM_ID) = a

(***************************************************************************)
(* Account validation (the MintPlanetNft accounts struct)                  *)
(***************************************************************************)
Fail(code, l) == [err |-> code, ledger |-> l]

\* #[account(init, seeds = [b"planet_nft", planet_id], bump, payer = payer,
\*           mint::decimals = 0, mint::authority = mint_authority)]
InitMint(l, i) ==
    IF Len(i.id) > MaxSeedLen \/ ResourceAddress(i.id) = NoAddress
    THEN Fail("ProgramFailedToComplete", l)
    ELSE IF i.mint # ResourceAddress(i.id) THEN Fail("ConstraintSeeds", l)
    ELSE IF Exists(l, i.mint) THEN Fail("AccountAlreadyInUse", l)
    ELSE IF i.fault = "create" THEN Fail("InsufficientFunds", l)
    ELSE Fail("none",
              [l EXCEPT !.mints = (i.mint :> [authority |-> i.authority,
                                              decimals |-> 0,
                                              supply |-> 0]) @@ @])

\* #[account(init, payer = payer, token::mint = mint,
\*           token::authority = mint_authority)]
InitTokenAccount(l, i) ==
    IF i.token \notin i.signers THEN Fail("MissingRequiredSignature", l)
    ELSE IF Exists(l, i.token) THEN Fail("AccountAlreadyInUse", l)
    ELSE Fail("none",
              [l EXCEPT !.tokens = (i.token :> [mint |-> i.mint,
                                                owner |-> i.authority,
                                                amount |-> 0]) @@ @])

CheckMintAuthorityMissing(i) == TRUE

\* #[account(seeds = [b"mint_authority", planet_id], bump)]
CheckMintAuthority(i) == i.authority = AuthorityAddress(i.id)

\* #[account(address = METADATA_PROGRAM_ID)]
CheckMetadataProgram(i) == i.metaProgram = METADATA_PROGRAM_ID

\* Accounts are read in declaration order (the payer must have signed), the
\* init accounts are created, then the remaining constraints are checked.
TryAccounts(l, i) ==
    IF i.payer \notin i.signers THEN Fail("AccountNotSigner", l)
    ELSE LET a == InitMint(l, i)
         IN  IF a.err # "none" THEN Fail(a.err, l)
             ELSE LET b == InitTokenAccount(a.ledger, i)
                  IN  IF b.err # "none" THEN Fail(b.err, l)
                      ELSE IF ~CheckMintAuthority(i)
                           THEN Fail("ConstraintSeeds", l)
                      ELSE IF ~CheckMetadataProgram(i)
                           THEN Fail("ConstraintAddress", l)
                      ELSE b

(***************************************************************************)
(* The collaborators                                                       *)
(***************************************************************************)
\* Token program, MintTo: the authority must be a signer of the call and be
\* the mint's authority, the destination must hold this mint.
TokenMintTo(l, i, accounts, signerSeeds, amount) ==
    IF ~CpiAuthorized({accounts.authority}, i.signers, signerSeeds)
    THEN Fail("PrivilegeEscalation", l)
    ELSE IF accounts.mint \notin DOMAIN l.mints
            \/ accounts.to \notin DOMAIN l.tokens
    THEN Fail("UninitializedAccount", l)
    ELSE IF l.tokens[accounts.to].mint # accounts.mint
    THEN Fail("MintMismatch", l)
    ELSE IF l.mints[accounts.mint].authority # accounts.authority
    THEN Fail("OwnerMismatch", l)
    ELSE IF i.fault = "mint_to" THEN Fail("TokenError", l)
    ELSE Fail("none",
              [l EXCEPT !.mints[accounts.mint].supply = @ + amount,
                        !.tokens[accounts.to].amount = @ + amount])

\* Metadata registry, CreateMetadataAccountV3: the mint authority, the payer
\* and (when flagged) the update authority must be signers of the call; the
\* metadata account must be the one derived from the mint and be new.
RegistryCreateMetadata(l, i, accounts, signerSeeds, data, isMutable, uaIsSigner) ==
    LET required == {accounts.mint_authority, accounts.payer}
                    \cup (IF uaIsSigner
                          THEN {accounts.update_authority} ELSE {})
    IN  IF ~CpiAuthorized(required, i.signers, signerSeeds)
        THEN Fail("PrivilegeEscalation", l)
        ELSE IF accounts.mint \notin DOMAIN l.mints
        THEN Fail("UninitializedAccount", l)
        ELSE IF accounts.metadata # ExpectedMetadata(accounts.mint)
        THEN Fail("InvalidMetadataKey", l)
        ELSE IF l.mints[accounts.mint].authority # accounts.mint_authority
        THEN Fail("InvalidMintAuthority", l)
        ELSE IF Exists(l, accounts.metadata)
        THEN Fail("AccountAlreadyInUse", l)
        ELSE IF i.fault = "create_metadata" THEN Fail("MetadataError", l)
        ELSE Fail("none",
                  [l EXCEPT !.metas =
                      (accounts.metadata :>
                          [mint |-> accounts.mint,
                           update_authority |-> accounts.update_authority,
                           name |-> data.name,
                           symbol |-> data.symbol,
                           uri |-> data.uri,
                           seller_fee_basis_points |->
                               data.seller_fee_basis_points,
                           creators |-> data.creators,
                           is_mutable |-> isMutable]) @@ @])

(***************************************************************************)
(* mint_planet_nft                                                         *)
(***************************************************************************)
\* let seeds = &[b"mint_authority", planet_id.as_bytes(),
\*               &[ctx.bumps.mint_authority]];  let signer = &[&seeds[..]];
MintToSigner(i) == << <<TagMintAuthority, i.id, <<AuthorityBump(i.id)>> >> >>

MintToAccounts(i) == [mint |-> i.mint, to |-> i.token, authority |-> i.authority]

\* CpiContext::new(..): the metadata call carries no signer seeds.
MetadataSigner(i) == <<>>

MetadataAccounts(i) ==
    [metadata |-> i.metadata, mint |-> i.mint, mint_authority |-> i.authority,
     update_authority |-> i.authority, payer |-> i.payer]

\* DataV2 { name, symbol: "PLANET", uri, seller_fee_basis_points: 0,
\*          creators: Some(vec![]), collection: None, uses: None }
MetadataDataV2(i) ==
    [name |-> i.name, symbol |-> Symbol, uri |-> i.uri,
     seller_fee_basis_points |-> 0, creators |-> <<>>]

IsMutable == FALSE

UpdateAuthorityIsSigner == TRUE

MetadataCheckSkipped(i) == TRUE

MetadataCheckInverted(i) == i.metadata # ExpectedMetadata(i.mint)

\* ctx.accounts.metadata.key() == expected_metadata_pda
MetadataCheck(i) == i.metadata = ExpectedMetadata(i.mint)

WellFormed(i) ==
    /\ i.mint = ResourceAddress(i.id)
    /\ i.authority = AuthorityAddress(i.id)
    /\ i.metadata = ExpectedMetadata(ResourceAddress(i.id))
    /\ i.metaProgram = METADATA_PROGRAM_ID
    /\ {i.payer, i.token} \subseteq i.signers
    /\ i.fault = "none"

NoInvocation ==
    [id |-> <<>>, name |-> "", uri |-> "", mint |-> <<>>, authority |-> <<>>,
     token |-> <<>>, metadata |-> <<>>, metaProgram |-> <<>>, payer |-> <<>>,
     signers |-> {}, fault |-> "none"]

Init ==
    /\ ledger = EmptyLedger
    /\ work = EmptyLedger
    /\ pre = EmptyLedger
    /\ pc = "idle"
    /\ inv = NoInvocation
    /\ result = "none"
    /\ cpiLog = <<>>
    /\ attempted = {}
    /\ derived = {}

Finished == pc \in {"committed", "aborted"}

\* An error return: the host discards the instruction's account changes.
Abort(code) ==
    /\ pc' = "aborted"
    /\ result' = code
    /\ work' = ledger
    /\ ledger' = ledger
    /\ attempted' = IF WellFormed(inv) THEN attempted \cup {inv.id}
                    ELSE attempted

\* Ok(()): the host keeps the instruction's account changes.
Commit ==
    /\ pc' = "committed"
    /\ result' = "Ok"
    /\ ledger' = work'
    /\ attempted' = IF WellFormed(inv) THEN attempted \cup {inv.id}
                    ELSE attempted

MetadataMismatchReturnsOk ==
    /\ work' = work
    /\ Commit

\* require!(.., ErrorCode::InvalidMetadataAccount) when the keys differ
MetadataMismatch == Abort("InvalidMetadataAccount")

\* A client submits a transaction holding one mint_planet_nft instruction.
Invoke ==
    /\ pc = "idle"
    /\ \E id \in Ids, alt \in Ids, mintOk \in BOOLEAN, authOk \in BOOLEAN,
          metaOk \in BOOLEAN, name \in Names, uri \in Uris,
          payer \in Payers, token \in TokenKeys,
          metaProgram \in {METADATA_PROGRAM_ID, OtherProgram},
          fault \in Faults :
        \E signers \in (SUBSET {payer, token}) \ {{}} :
          inv' = [id |-> id, name |-> name, uri |-> uri,
                  mint |-> ResourceAddress(IF mintOk THEN id ELSE alt),
                  authority |-> AuthorityAddress(IF authOk THEN id ELSE alt),
                  token |-> token,
                  metadata |-> ExpectedMetadata(
                      ResourceAddress(IF metaOk THEN id ELSE alt)),
                  metaProgram |-> metaProgram, payer |-> payer,
                  signers |-> signers, fault |-> fault]
    /\ pc' = "entry"
    /\ result' = "pending"
    /\ pre' = ledger
    /\ work' = ledger
    /\ cpiLog' = <<>>
    /\ UNCHANGED <<ledger, attempted, derived>>

\* The accounts struct is validated and its init accounts are created before
\* the handler body runs.
Validate ==
    /\ pc = "entry"
    /\ LET r == TryAccounts(work, inv)
       IN  IF r.err = "none"
           THEN /\ work' = r.ledger
                /\ pc' = "handler"
                /\ UNCHANGED <<ledger, result, attempted>>
           ELSE Abort(r.err)
    /\ UNCHANGED <<pre, inv, cpiLog, derived>>

\* mint_to whose error is dropped instead of returned with "?"
MintToErrorDropped ==
    /\ pc = "handler"
    /\ LET r == TokenMintTo(work, inv, MintToAccounts(inv), MintToSigner(inv),
                            MintAmount)
       IN  /\ cpiLog' = Append(cpiLog,
                               [ix |-> "mint_to",
                                accounts |-> MintToAccounts(inv),
                                signer |-> MintToSigner(inv),
                                args |-> [amount |-> MintAmount],
                                outcome |-> r.err])
           /\ work' = r.ledger
           /\ pc' = "issued"
           /\ UNCHANGED <<ledger, result, attempted>>
    /\ UNCHANGED <<pre, inv, derived>>

\* mint_to(CpiContext::new_with_signer(..), 1)?
MintTo ==
    /\ pc = "handler"
    /\ LET r == TokenMintTo(work, inv, MintToAccounts(inv), MintToSigner(inv),
                            MintAmount)
       IN  /\ cpiLog' = Append(cpiLog,
                               [ix |-> "mint_to",
                                accounts |-> MintToAccounts(inv),
                                signer |-> MintToSigner(inv),
                                args |-> [amount |-> MintAmount],
                                outcome |-> r.err])
           /\ IF r.err = "none"
              THEN /\ work' = r.ledger
                   /\ pc' = "issued"
                   /\ UNCHANGED <<ledger, result, attempted>>
              ELSE Abort(r.err)
    /\ UNCHANGED <<pre, inv, derived>>

\* the metadata comparison placed ahead of the mint_to call
VerifyMetadataBeforeMintTo ==
    /\ pc = "handler"
    /\ IF MetadataCheck(inv)
       THEN /\ pc' = "verified"
            /\ UNCHANGED <<ledger, work, result, attempted>>
       ELSE MetadataMismatch
    /\ UNCHANGED <<pre, inv, cpiLog, derived>>

\* require!(ctx.accounts.metadata.key() == expected_metadata_pda, ..)
VerifyMetadata ==
    /\ pc = "issued"
    /\ IF MetadataCheck(inv)
       THEN /\ pc' = "verified"
            /\ UNCHANGED <<ledger, work, result, attempted>>
       ELSE MetadataMismatch
    /\ UNCHANGED <<pre, inv, cpiLog, derived>>

\* create_metadata_accounts_v3(CpiContext::new(..), data, false, true, None)?
\* followed by Ok(()).
CreateMetadata ==
    /\ pc = "verified"
    /\ LET r == RegistryCreateMetadata(work, inv, MetadataAccounts(inv),
                                       MetadataSigner(inv),
                                       MetadataDataV2(inv), IsMutable,
                                       UpdateAuthorityIsSigner)
       IN  /\ cpiLog' = Append(cpiLog,
                               [ix |-> "create_metadata",
                                accounts |-> MetadataAccounts(inv),
                                signer |-> MetadataSigner(inv),
                                args |-> [data |-> MetadataDataV2(inv),
                                          is_mutable |-> IsMutable,
                                          update_authority_is_signer |->
                                              UpdateAuthorityIsSigner],
                                outcome |-> r.err])
           /\ IF r.err = "none"
              THEN /\ work' = r.ledger
                   /\ Commit
              ELSE Abort(r.err)
    /\ UNCHANGED <<pre, inv, derived>>

\* The result has been handed to the client; the next transaction may run.
Return ==
    /\ Finished
    /\ pc' = "idle"
    /\ inv' = NoInvocation
    /\ result' = "none"
    /\ cpiLog' = <<>>
    /\ pre' = ledger
    /\ work' = ledger
    /\ UNCHANGED <<ledger, attempted, derived>>

Next ==
    \/ Invoke
    \/ Validate
    \/ MintTo
    \/ VerifyMetadata
    \/ CreateMetadata
    \/ Return

Spec == Init /\ [][Next]_vars

(***************************************************************************)
(* The Address Deriver run by itself: each step derives one address from   *)
(* an identifier and records what went in and what came out.               *)
(***************************************************************************)
Derivation(domain, id, seeds, program) ==
    [domain |-> domain, id |-> id, seeds |-> seeds, program |-> program,
     address |-> FindProgramAddress(seeds, program)[1],
     bump |-> FindProgramAddress(seeds, program)[2]]

progVars == <<ledger, work, pre, pc, inv, result, cpiLog, attempted>>

\* seeds = [b"planet_nft", planet_id.as_bytes()], bump
DeriveResource ==
    /\ \E id \in Ids :
          derived' = derived \cup
              {Derivation("resource", id, ResourceSeeds(id), PROGRAM_ID)}
    /\ UNCHANGED progVars

\* seeds = [b"mint_authority", planet_id.as_bytes()], bump
DeriveAuthority ==
    /\ \E id \in Ids :
          derived' = derived \cup
              {Derivation("authority", id, AuthoritySeeds(id), PROGRAM_ID)}
    /\ UNCHANGED progVars

\* Pubkey::find_program_address(metadata_seeds, &METADATA_PROGRAM_ID)
DeriveMetadata ==
    /\ \E id \in Ids :
          derived' = derived \cup
              {Derivation("metadata", id, MetadataSeeds(ResourceAddress(id)),
                          METADATA_PROGRAM_ID)}
    /\ UNCHANGED progVars

NextDerive ==
    \/ DeriveResource
    \/ DeriveAuthority
    \/ DeriveMetadata

SpecDerive == Init /\ [][NextDerive]_vars

(***************************************************************************)
(* Vocabulary of the properties                                            *)
(***************************************************************************)
InFlight == pc \in {"entry", "handler", "issued", "verified"}

Called(ix) == {k \in 1..Len(cpiLog) : cpiLog[k].ix = ix}

Succeeded(ix) == \E k \in Called(ix) : cpiLog[k].outcome = "none"

DerivedMetadata(id) == ExpectedMetadata(ResourceAddress(id))

\* Neither the identifier's addresses nor the holding account are in use.
Fresh(l, i) ==
    /\ ~Exists(l, ResourceAddress(i.id))
    /\ ~Exists(l, DerivedMetadata(i.id))
    /\ ~Exists(l, i.token)

IssuedAt(l, m) == m \in DOMAIN l.mints /\ l.mints[m].supply >= 1

MetadataOf(i) ==
    [mint |-> ResourceAddress(i.id),
     update_authority |-> AuthorityAddress(i.id),
     name |-> i.name, symbol |-> "PLANET", uri |-> i.uri,
     seller_fee_basis_points |-> 0, creators |-> <<>>, is_mutable |-> FALSE]

(***************************************************************************)
(* C1: a mint of a fresh identifier that presents the correctly derived    *)
(* Resource, Authority and Metadata addresses succeeds and commits exactly *)
(* one unit at the Resource Address and one metadata record with the       *)
(* supplied name and uri, symbol "PLANET", fee 0, no creators, immutable.  *)
(***************************************************************************)
C1_FreshMintSucceeds ==
    (Finished /\ WellFormed(inv) /\ inv.id # <<>> /\ Fresh(pre, inv)) =>
        /\ result = "Ok"
        /\ ResourceAddress(inv.id) \in DOMAIN ledger.mints
        /\ ledger.mints[ResourceAddress(inv.id)].supply = 1
        /\ DerivedMetadata(inv.id) \in DOMAIN ledger.metas
        /\ ledger.metas[DerivedMetadata(inv.id)] = MetadataOf(inv)
        /\ Cardinality(DOMAIN ledger.metas) = Cardinality(DOMAIN pre.metas) + 1

(***************************************************************************)
(* C2: the create_metadata call names the Authority Address as mint        *)
(* authority and as update authority and carries the Derivation Proof      *)
(* that the mint_to call carried, so the Authority Address is a proven     *)
(* signer of the metadata call.                                            *)
(***************************************************************************)
C2_MetadataCallCarriesProof ==
    \A k \in Called("create_metadata") :
        /\ cpiLog[k].accounts.mint_authority = AuthorityAddress(inv.id)
        /\ cpiLog[k].accounts.update_authority = AuthorityAddress(inv.id)
        /\ \E j \in Called("mint_to") : cpiLog[k].signer = cpiLog[j].signer
        /\ CpiAuthorized({AuthorityAddress(inv.id)}, inv.signers,
                         cpiLog[k].signer)

(***************************************************************************)
(* C3 as stated: if the presented metadata address differs from the one    *)
(* derived from the Resource Address, mint fails with                      *)
(* InvalidMetadataAccount, create_metadata is never invoked, and the       *)
(* ledger then holds neither a unit nor a metadata record of the           *)
(* identifier.                                                             *)
(***************************************************************************)
MetadataTampered == pc # "idle" /\ inv.metadata # DerivedMetadata(inv.id)

NothingHeldFor(id) ==
    /\ ~IssuedAt(ledger, ResourceAddress(id))
    /\ DerivedMetadata(id) \notin DOMAIN ledger.metas

C3_TamperedAlwaysInvalidMetadataAccount ==
    MetadataTampered =>
        /\ Called("create_metadata") = {}
        /\ Finished => /\ result = "InvalidMetadataAccount"
                       /\ NothingHeldFor(inv.id)

(***************************************************************************)
(* C3 amended: if the presented metadata address differs from the derived  *)
(* one, mint fails, create_metadata is never invoked and the ledger is as  *)
(* before, holding neither a unit nor a metadata record of the identifier; *)
(* the failure is InvalidMetadataAccount whenever account validation and   *)
(* mint_to succeeded, and is the earlier step's error otherwise.           *)
(***************************************************************************)
C3_TamperedMetadataRejected ==
    MetadataTampered =>
        /\ Called("create_metadata") = {}
        /\ pc \notin {"verified", "committed"}
        /\ ledger = pre
        /\ Finished =>
              /\ result # "Ok"
              /\ NothingHeldFor(inv.id)
              /\ Succeeded("mint_to") <=> result = "InvalidMetadataAccount"

C3_Witness ==
    /\ MetadataTampered
    /\ pc = "aborted"
    /\ Succeeded("mint_to")
    /\ result = "InvalidMetadataAccount"

(***************************************************************************)
(* C4: a mint on an identifier for which a mint has already committed      *)
(* fails: it is rejected before the handler runs, with the creation error  *)
(* (the address is in use) when its accounts are the derived ones and      *)
(* with an authorization error otherwise; and what the first call left     *)
(* (the Resource record with its supply of one unit, the holding account   *)
(* balance and the metadata record) is unchanged by the failed call.       *)
(***************************************************************************)
Committed(l, id) ==
    /\ IssuedAt(l, ResourceAddress(id))
    /\ DerivedMetadata(id) \in DOMAIN l.metas

HeldUnits(l, id) ==
    {t \in DOMAIN l.tokens :
        l.tokens[t].mint = ResourceAddress(id) /\ l.tokens[t].amount >= 1}

C4_ReuseRejected ==
    (pc # "idle" /\ Committed(pre, inv.id)) =>
        /\ pc \in {"entry", "aborted"}
        /\ cpiLog = <<>>
        /\ Finished =>
              /\ result \in {"AccountAlreadyInUse", "ConstraintSeeds",
                              "AccountNotSigner"}
              /\ (WellFormed(inv) => result = "AccountAlreadyInUse")
              /\ work = pre
        /\ ledger = pre
        /\ ledger.mints[ResourceAddress(inv.id)].supply = 1
        /\ \A t \in HeldUnits(pre, inv.id) : ledger.tokens[t].amount = 1
        /\ ledger.metas[DerivedMetadata(inv.id)]
              = pre.metas[DerivedMetadata(inv.id)]

(***************************************************************************)
(* C5: however many mints are made, racing on one identifier or not, the   *)
(* host runs them one after the other; at most one of them commits per     *)
(* identifier, no Resource Address ever has a supply above one (not even   *)
(* in the accounts of a running invocation), a racer that comes after the  *)
(* winner fails at its creation step before any unit is issued, and        *)
(* nothing the winner wrote is lost.                                       *)
(***************************************************************************)
SupplyAtMostOne(l) == \A m \in DOMAIN l.mints : l.mints[m].supply <= 1

WinnerKept(l) ==
    /\ \A m \in DOMAIN pre.mints :
          m \in DOMAIN l.mints /\ l.mints[m] = pre.mints[m]
    /\ \A t \in DOMAIN pre.tokens :
          t \in DOMAIN l.tokens /\ l.tokens[t] = pre.tokens[t]
    /\ \A a \in DOMAIN pre.metas :
          a \in DOMAIN l.metas /\ l.metas[a] = pre.metas[a]

C5_RacersFailAtCreation ==
    /\ SupplyAtMostOne(ledger)
    /\ SupplyAtMostOne(work)
    /\ \A id \in Ids : Cardinality(HeldUnits(ledger, id)) <= 1
    /\ \A id \in Ids : Cardinality(HeldUnits(work, id)) <= 1
    /\ (pc # "idle" /\ IssuedAt(ledger, ResourceAddress(inv.id))) =>
          /\ pc # "committed"
          /\ ~Succeeded("mint_to")
          /\ (inv.mint = ResourceAddress(inv.id)
                 /\ inv.payer \in inv.signers /\ Finished) =>
                result = "AccountAlreadyInUse"
    /\ WinnerKept(ledger)
    /\ WinnerKept(work)

(***************************************************************************)
(* C6: no partial state persists.  On the committed ledger a unit is       *)
(* issued at a Resource Address exactly when a metadata record is attached *)
(* for it; a failure at any step (account validation, mint_to, metadata    *)
(* address check, create_metadata) ends the invocation aborted with the    *)
(* ledger, and every account the invocation touched, exactly as before it. *)
(***************************************************************************)
IsError(r) == r \notin {"none", "pending", "Ok"}

C6_NoPartialState ==
    /\ \A m \in DOMAIN ledger.mints :
          /\ ledger.mints[m].supply >= 1
          /\ ExpectedMetadata(m) \in DOMAIN ledger.metas
    /\ \A a \in DOMAIN ledger.metas :
          /\ IssuedAt(ledger, ledger.metas[a].mint)
          /\ a = ExpectedMetadata(ledger.metas[a].mint)
    /\ \A t \in DOMAIN ledger.tokens :
          /\ IssuedAt(ledger, ledger.tokens[t].mint)
          /\ ledger.tokens[t].amount >= 1
    /\ InFlight => (ledger = pre /\ ~IsError(result))
    /\ IsError(result) <=> pc = "aborted"
    /\ pc = "aborted" => (ledger = pre /\ work = pre)
    /\ \A k \in 1..Len(cpiLog) : cpiLog[k].outcome # "none" => pc = "aborted"

\* An invocation aborted after its unit had been issued: that unit is gone.
C6_Witness ==
    /\ pc = "aborted"
    /\ Succeeded("mint_to")
    /\ result = "InvalidMetadataAccount"
    /\ ~IssuedAt(ledger, inv.mint)
    /\ inv.token \notin DOMAIN work.tokens

(***************************************************************************)
(* C7: mint checks the presented Resource and Authority accounts against   *)
(* the addresses derived from the identifier under "planet_nft" and        *)
(* "mint_authority"; if either differs the invocation fails before         *)
(* mint_to is invoked and nothing is issued.                               *)
(***************************************************************************)
AddressesForged ==
    /\ pc # "idle"
    /\ \/ inv.mint # ResourceAddress(inv.id)
       \/ inv.authority # AuthorityAddress(inv.id)

C7_DerivedAddressesEnforced ==
    AddressesForged =>
        /\ pc \in {"entry", "aborted"}
        /\ cpiLog = <<>>
        /\ work = pre
        /\ ledger = pre
        /\ ~IssuedAt(ledger, inv.mint)
        /\ Finished => IsError(result)

\* The resource account is the derived one, the authority account is not.
C7_Witness ==
    /\ pc = "aborted"
    /\ inv.mint = ResourceAddress(inv.id)
    /\ inv.authority # AuthorityAddress(inv.id)
    /\ {inv.payer, inv.token} \subseteq inv.signers
    /\ inv.fault = "none"
    /\ result = "ConstraintSeeds"
    /\ cpiLog = <<>>

(***************************************************************************)
(* C8: once the unit has been issued, the holding account that received    *)
(* it is owned by the caller and by no other principal.                    *)
(***************************************************************************)
C8_HolderIsCaller ==
    \A t \in DOMAIN work.tokens :
        (InFlight /\ t = inv.token /\ work.tokens[t].amount >= 1) =>
            work.tokens[t].owner = inv.payer

(***************************************************************************)
(* C9: a failure reported by mint_to or by create_metadata is returned     *)
(* as it is, ends the invocation at once (no later step is invoked) and    *)
(* is never retried: each of the two calls is made at most once in an      *)
(* invocation.                                                             *)
(***************************************************************************)
C9_FailuresSurfaceVerbatim ==
    /\ Cardinality(Called("mint_to")) <= 1
    /\ Cardinality(Called("create_metadata")) <= 1
    /\ \A k \in 1..Len(cpiLog) :
          cpiLog[k].outcome # "none" =>
              /\ k = Len(cpiLog)
              /\ pc = "aborted"
              /\ result = cpiLog[k].outcome
              /\ ledger = pre
    /\ \A k \in Called("create_metadata") :
          \E j \in Called("mint_to") : j < k /\ cpiLog[j].outcome = "none"

C9_Witness ==
    /\ pc = "aborted"
    /\ Len(cpiLog) = 1
    /\ cpiLog[1].ix = "mint_to"
    /\ cpiLog[1].outcome = "TokenError"
    /\ result = "TokenError"

(***************************************************************************)
(* C10: every metadata record attached through the program, and every     *)
(* create_metadata call the program makes, is for the address derived     *)
(* from ("metadata", registry program id, M) and names M as its mint,      *)
(* where M is the Resource Address derived from the identifier of the      *)
(* invocation; metadata never goes to the address of another resource.     *)
(***************************************************************************)
RecordsWellPlaced(l) ==
    \A a \in DOMAIN l.metas :
        /\ a = ExpectedMetadata(l.metas[a].mint)
        /\ \E id \in Ids : l.metas[a].mint = ResourceAddress(id)

C10_MetadataTargetsOwnResource ==
    /\ RecordsWellPlaced(ledger)
    /\ RecordsWellPlaced(work)
    /\ \A a \in DOMAIN work.metas :
          InFlight => (a \in DOMAIN pre.metas \/ a = DerivedMetadata(inv.id))
    /\ \A k \in Called("create_metadata") :
          /\ cpiLog[k].accounts.mint = ResourceAddress(inv.id)
          /\ cpiLog[k].accounts.metadata = DerivedMetadata(inv.id)

\* The metadata call has been made, for the invocation's own resource.
C10_Witness ==
    /\ Called("create_metadata") # {}
    /\ inv.id # <<>>
    /\ cpiLog[Len(cpiLog)].accounts.metadata = DerivedMetadata(inv.id)

(***************************************************************************)
(* C11: within an invocation the steps run in the order authority proof    *)
(* -> mint_to -> metadata address comparison -> create_metadata.  The      *)
(* mint_to call carries the proof that derives the Authority Address; the  *)
(* comparison is evaluated only after mint_to has succeeded;               *)
(* create_metadata is invoked only after mint_to has succeeded and the     *)
(* presented metadata address was found equal to the derived one.          *)
(***************************************************************************)
StepOrder ==
    \/ pc' = pc
    \/ pc = "idle" /\ pc' = "entry"
    \/ pc = "entry" /\ pc' \in {"handler", "aborted"}
    \/ pc = "handler" /\ pc' \in {"issued", "aborted"}
    \/ pc = "issued" /\ pc' \in {"verified", "aborted"}
    \/ pc = "verified" /\ pc' \in {"committed", "aborted"}
    \/ pc \in {"committed", "aborted"} /\ pc' = "idle"

StepsInOrder ==
    /\ \A k \in Called("mint_to") :
          /\ k = 1
          /\ Len(cpiLog[k].signer) = 1
          /\ CreateProgramAddress(cpiLog[k].signer[1], PROGRAM_ID)
                 = AuthorityAddress(inv.id)
    /\ \A k \in Called("create_metadata") :
          /\ k = 2
          /\ cpiLog[1].ix = "mint_to"
          /\ cpiLog[1].outcome = "none"
          /\ inv.metadata = DerivedMetadata(inv.id)
    /\ pc \in {"issued", "verified", "committed"} => Succeeded("mint_to")
    /\ pc \in {"verified", "committed"} =>
          inv.metadata = DerivedMetadata(inv.id)
    /\ result = "InvalidMetadataAccount" =>
          (Succeeded("mint_to") /\ Called("create_metadata") = {})
    /\ pc \in {"entry", "handler"} => cpiLog = <<>>

C11_StepsInFixedOrder == [](StepsInOrder) /\ [][StepOrder]_vars

C11_Witness ==
    /\ pc = "aborted"
    /\ Len(cpiLog) = 2
    /\ cpiLog[1].ix = "mint_to"
    /\ cpiLog[1].outcome = "none"
    /\ cpiLog[2].ix = "create_metadata"
    /\ inv.metadata = DerivedMetadata(inv.id)

(***************************************************************************)
(* C12: a metadata record is created at most once per Resource Address     *)
(* and is created immutable and royalty-free (supplied name and uri,       *)
(* symbol "PLANET", fee 0, no creators, is_mutable false, update authority *)
(* the Authority Address); a record on the ledger is the same in every     *)
(* later state, whatever further mints are made.                           *)
(***************************************************************************)
ImmutableRoyaltyFree(l) ==
    \A a \in DOMAIN l.metas :
        /\ l.metas[a].is_mutable = FALSE
        /\ l.metas[a].seller_fee_basis_points = 0
        /\ l.metas[a].creators = <<>>
        /\ l.metas[a].symbol = "PLANET"
        /\ \E id \in Ids :
              /\ l.metas[a].mint = ResourceAddress(id)
              /\ l.metas[a].update_authority = AuthorityAddress(id)

MetadataRequestsFixed ==
    /\ Cardinality(Called("create_metadata")) <= 1
    /\ \A k \in Called("create_metadata") :
          /\ cpiLog[k].args.is_mutable = FALSE
          /\ cpiLog[k].args.data =
                [name |-> inv.name, symbol |-> "PLANET", uri |-> inv.uri,
                 seller_fee_basis_points |-> 0, creators |-> <<>>]
          /\ cpiLog[k].accounts.update_authority = AuthorityAddress(inv.id)
          /\ cpiLog[k].accounts.mint \notin DOMAIN pre.mints
          /\ cpiLog[k].accounts.metadata \notin DOMAIN pre.metas

RecordsKept ==
    \A a \in DOMAIN ledger.metas :
        /\ a \in DOMAIN ledger'.metas
        /\ ledger'.metas[a] = ledger.metas[a]

\* A running invocation sees every committed record as it is on the ledger.
RecordsUntouched ==
    \A a \in DOMAIN ledger.metas :
        a \in DOMAIN work.metas /\ work.metas[a] = ledger.metas[a]

C12_MetadataOnceAndImmutable ==
    /\ [](ImmutableRoyaltyFree(ledger) /\ ImmutableRoyaltyFree(work)
           /\ MetadataRequestsFixed /\ RecordsUntouched)
    /\ [][RecordsKept]_vars

(***************************************************************************)
(* C13: mint rejects an empty identifier: an invocation whose identifier   *)
(* is the empty byte string fails at once and issues nothing, not even a   *)
(* unit that is discarded later.                                           *)
(***************************************************************************)
C13_EmptyIdentifierRejected ==
    (pc # "idle" /\ inv.id = <<>>) =>
        /\ pc \in {"entry", "aborted"}
        /\ cpiLog = <<>>
        /\ work = pre
        /\ Finished => IsError(result)

(***************************************************************************)
(* C14: every derivation domain has its own namespace tag and derived      *)
(* addresses do not collide: the Authority Address of an identifier        *)
(* differs from the Resource Address of every identifier (the same one     *)
(* included), distinct identifiers have distinct Resource Addresses and    *)
(* distinct Authority Addresses, and the seed bytes fed to the derivation  *)
(* differ in each of these cases.                                          *)
(***************************************************************************)
SameInput(r1, r2) == r1.domain = r2.domain /\ r1.id = r2.id

C14_DerivedAddressesDistinct ==
    \A r1 \in derived, r2 \in derived :
        /\ r1.domain # r2.domain => r1.seeds[1] # r2.seeds[1]
        /\ ~SameInput(r1, r2) => r1.address # r2.address
        /\ (~SameInput(r1, r2) /\ r1.domain # "metadata"
               /\ r2.domain # "metadata") =>
              Concat(r1.seeds) # Concat(r2.seeds)

\* Every derivation of every identifier has been made.
C14_Witness ==
    /\ \A id \in Ids : \A d \in {"resource", "authority", "metadata"} :
          \E r \in derived : r.domain = d /\ r.id = id
    /\ \E r1 \in derived, r2 \in derived :
          /\ r1.domain = "resource" /\ r2.domain = "resource"
          /\ Len(r1.id) < Len(r2.id)
          /\ SubSeq(r2.id, 1, Len(r1.id)) = r1.id

(***************************************************************************)
(* C16 as stated: the nonce returned by derive is the smallest             *)
(* non-negative integer whose candidate address is off the curve           *)
(* (candidates are tried in increasing order, the first hit wins).         *)
(***************************************************************************)
Candidate(r, b) == CreateProgramAddress(Append(r.seeds, <<b>>), r.program)

C16_NonceIsSmallest ==
    \A r \in derived :
        /\ ~OnCurve(Candidate(r, r.bump))
        /\ \A c \in 0..(r.bump - 1) : OnCurve(Candidate(r, c))

(***************************************************************************)
(* C16 amended: the nonce returned by derive is the largest integer in     *)
(* 1..255 whose candidate address is off the curve: candidates are tried   *)
(* in decreasing order from 255 down to 1 and the first hit wins; the      *)
(* address returned is that candidate.                                     *)
(***************************************************************************)
C16_NonceIsLargest ==
    \A r \in derived :
        /\ r.bump \in MinBump..MaxBump
        /\ r.address = Candidate(r, r.bump)
        /\ ~OnCurve(Candidate(r, r.bump))
        /\ \A c \in (r.bump + 1)..MaxBump : OnCurve(Candidate(r, c))

\* A derivation whose search went past 255, and one that stopped at 255
\* although smaller nonces were possible too.
C16_Witness ==
    /\ \E r \in derived : r.bump < MaxBump
    /\ \E r \in derived :
          /\ r.bump = MaxBump
          /\ \E c \in 0..(r.bump - 1) : ~OnCurve(Candidate(r, c))

(***************************************************************************)
(* C17: the holding account that receives the unit is created with the     *)
(* Authority Address as its token authority, and mint, the only operation  *)
(* of the program, issues only to a Resource Address and a holding account *)
(* it has just created; so a committed unit stays where it is: balance 1,  *)
(* supply 1, in every later state (no transfer, burn or second issue).     *)
(***************************************************************************)
HoldingAccountsLocked ==
    /\ \A t \in DOMAIN work.tokens :
          /\ work.tokens[t].amount \in {0, 1}
          /\ work.tokens[t].mint \in DOMAIN work.mints
          /\ work.tokens[t].owner = work.mints[work.tokens[t].mint].authority
          /\ work.tokens[t].owner # inv.payer
          /\ (pc \in {"handler", "issued", "verified"} /\ t = inv.token) =>
                work.tokens[t].owner = AuthorityAddress(inv.id)
    /\ \A m \in DOMAIN work.mints : work.mints[m].supply \in {0, 1}
    /\ \A t \in DOMAIN ledger.tokens :
          /\ ledger.tokens[t].amount = 1
          /\ t \in DOMAIN work.tokens
          /\ work.tokens[t] = ledger.tokens[t]
          /\ \E id \in Ids :
                /\ ledger.tokens[t].mint = ResourceAddress(id)
                /\ ledger.tokens[t].owner = AuthorityAddress(id)
    /\ \A m \in DOMAIN ledger.mints :
          /\ ledger.mints[m].supply = 1
          /\ m \in DOMAIN work.mints
          /\ work.mints[m] = ledger.mints[m]
    /\ \A k \in Called("mint_to") :
          /\ cpiLog[k].args.amount = 1
          /\ cpiLog[k].accounts.mint \notin DOMAIN pre.mints
          /\ cpiLog[k].accounts.to \notin DOMAIN pre.tokens

CommittedUnitsKept ==
    /\ \A m \in DOMAIN ledger.mints :
          m \in DOMAIN ledger'.mints /\ ledger'.mints[m] = ledger.mints[m]
    /\ \A t \in DOMAIN ledger.tokens :
          t \in DOMAIN ledger'.tokens /\ ledger'.tokens[t] = ledger.tokens[t]

C17_IssuedUnitStaysPut ==
    [](HoldingAccountsLocked) /\ [][CommittedUnitsKept]_vars

(***************************************************************************)
(* C18: mint checks nothing about the caller except that the payer signed. *)
(* The same invocation sent by another caller has the same outcome, the    *)
(* same three addresses and the same metadata record; so the caller who    *)
(* first mints an identifier with its derived addresses claims it for      *)
(* good: the unit exists from then on and nobody can mint it again.        *)
(***************************************************************************)
\* One whole mint_planet_nft instruction run on ledger l.
MintOutcome(l, i) ==
    LET a == TryAccounts(l, i)
        b == TokenMintTo(a.ledger, i, MintToAccounts(i), MintToSigner(i),
                         MintAmount)
        c == RegistryCreateMetadata(b.ledger, i, MetadataAccounts(i),
                                    MetadataSigner(i), MetadataDataV2(i),
                                    IsMutable, UpdateAuthorityIsSigner)
    IN  IF a.err # "none" THEN [result |-> a.err, ledger |-> l]
        ELSE IF b.err # "none" THEN [result |-> b.err, ledger |-> l]
        ELSE IF ~MetadataCheck(i)
             THEN [result |-> "InvalidMetadataAccount", ledger |-> l]
        ELSE IF c.err # "none" THEN [result |-> c.err, ledger |-> l]
        ELSE [result |-> "Ok", ledger |-> c.ledger]

\* The invocation i sent by caller q instead.
SentBy(i, q) ==
    [i EXCEPT !.payer = q,
              !.signers = IF i.payer \in i.signers
                          THEN (@ \ {i.payer}) \cup {q} ELSE @]

CorrectInvocation(id, q, token, name, uri) ==
    [id |-> id, name |-> name, uri |-> uri, mint |-> ResourceAddress(id),
     authority |-> AuthorityAddress(id), token |-> token,
     metadata |-> DerivedMetadata(id), metaProgram |-> METADATA_PROGRAM_ID,
     payer |-> q, signers |-> {q, token}, fault |-> "none"]

CallerIndependent ==
    /\ (pc = "entry") =>
          \A q \in Payers :
              /\ MintOutcome(pre, SentBy(inv, q)) = MintOutcome(pre, inv)
              /\ MetadataAccounts(SentBy(inv, q)).metadata
                     = MetadataAccounts(inv).metadata
              /\ MetadataAccounts(SentBy(inv, q)).mint
                     = MetadataAccounts(inv).mint
              /\ MetadataAccounts(SentBy(inv, q)).mint_authority
                     = MetadataAccounts(inv).mint_authority
              /\ MetadataDataV2(SentBy(inv, q)) = MetadataDataV2(inv)
    /\ Finished =>
          /\ result = MintOutcome(pre, inv).result
          /\ ledger = MintOutcome(pre, inv).ledger

FirstCallerClaims ==
    \A id \in attempted \ {<<>>} :
        /\ IssuedAt(ledger, ResourceAddress(id))
        /\ \A q \in Payers, t \in TokenKeys, n \in Names, u \in Uris :
              MintOutcome(ledger, CorrectInvocation(id, q, t, n, u)).result
                 \in {"AccountAlreadyInUse"}

C18_FirstCallerClaimsForGood ==
    /\ CallerIndependent
    /\ FirstCallerClaims

====
